---- MODULE Spec2Model ----
(***************************************************************************)
(* Model of FileTransferClient (src/filetransferclient.py): one call of    *)
(* upload_file or download_file, the control connection it negotiates on,  *)
(* the chunk plan it computes, and the chunk worker threads it starts and  *)
(* joins.  Each worker thread is a process with its own position; the      *)
(* server and the transport are the environment.                           *)
(***************************************************************************)
EXTENDS Integers, Sequences, FiniteSets, TLC

\* ---------------------------------------------------------------- bounds
MaxSize == 5
MaxChunks == 4
\* Largest file size of the specification of the chunk plan alone (PlanSpec).
PlanMaxSize == 10

Workers == 0 .. (MaxChunks - 1)

\* ------------------------------------------------------- pure functions

\* The file being transferred: the local file of an upload, the remote file
\* of a download.  The client never inspects the bytes it moves, so one
\* content per size is enough; the byte at offset k is k+1, which makes every
\* offset distinguishable and distinct from the zero fill of a preallocation.
SourceOfSize(n) == [k \in 1 .. n |-> k]

SourceFiles == { SourceOfSize(n) : n \in 0 .. MaxSize }

\* A file already present under the destination name before a download.
OldFile == [k \in 1 .. (MaxSize + 1) |-> 255]

\* struct.pack('!I', value) accepts exactly the unsigned 32-bit integers
\* (value < 2^32, written as value div 2^16 < 2^16).
send_int_raises(value) == value < 0 \/ value \div 65536 >= 65536

\* chunk_size = file_size // chunk_count
ChunkSize_rounding_up(size, count) == (size + count - 1) \div count

ChunkSize(size, count) == size \div count

start_byte(i, csize) == i * csize

end_byte_no_remainder(i, count, csize, size) ==
    start_byte(i, csize) + csize - 1

end_byte_overlap(i, count, csize, size) ==
    IF i = count - 1 THEN size - 1 ELSE start_byte(i, csize) + csize

end_byte(i, count, csize, size) ==
    IF i = count - 1 THEN size - 1 ELSE start_byte(i, csize) + csize - 1

\* file.seek(pos); file.write(bytes) on a file with content f: offsets are
\* 0-based, a write past the end fills the gap with zero bytes.
WriteAt_truncating(f, pos, bytes) ==
    [k \in 1 .. (pos + Len(bytes)) |->
        IF k > pos THEN bytes[k - pos]
        ELSE IF k <= Len(f) THEN f[k]
        ELSE 0]

WriteAt(f, pos, bytes) ==
    LET newLen == IF pos + Len(bytes) > Len(f) THEN pos + Len(bytes) ELSE Len(f)
    IN  [k \in 1 .. newLen |->
            IF k > pos /\ k <= pos + Len(bytes) THEN bytes[k - pos]
            ELSE IF k <= Len(f) THEN f[k]
            ELSE 0]

\* file.seek(pos); file.read(n): at most n bytes, fewer at end of file; a
\* negative n reads to the end of the file.
ReadAt(f, pos, n) ==
    LET last == IF n < 0 \/ pos + n > Len(f) THEN Len(f) ELSE pos + n
    IN  IF n = 0 \/ pos >= Len(f) THEN << >> ELSE SubSeq(f, pos + 1, last)

\* One iteration of the loop of recv_all with `have` bytes collected so far:
\* an empty packet means the peer closed the stream and raises; otherwise
\* the packet is added and the loop goes on until `length` bytes are there.
recv_all_ignores_close(have, length, packet) ==
    IF have + Len(packet) < length THEN "loop" ELSE "return"

recv_all_short_return(have, length, packet) ==
    IF packet = << >> THEN "return"
    ELSE IF have + Len(packet) < length THEN "loop"
    ELSE "return"

recv_all_single_recv(have, length, packet) ==
    IF packet = << >> THEN "raise" ELSE "return"

recv_all_step(have, length, packet) ==
    IF packet = << >> THEN "raise"
    ELSE IF have + Len(packet) < length THEN "loop"
    ELSE "return"

\* upload_file line 101: a name collision aborts the upload.
upload_unchecked(file_exists) == FALSE

upload_aborts(file_exists) == file_exists

\* What follows an accepted negotiation response: an upload sends the file
\* size (lines 104-105), a download goes on to chunk_size (line 159).
after_response_skips_size(operation) == "plan"

after_response(operation) == IF operation = "upload" THEN "size" ELSE "plan"

\* download_file line 156: a file the server does not have aborts.
download_unchecked(file_exists) == FALSE

download_aborts_inverted(file_exists) == file_exists

download_aborts(file_exists) == ~file_exists

\* download_file line 147: a missing destination directory aborts.
destination_unchecked(dir_exists) == FALSE

destination_missing(dir_exists) == ~dir_exists

\* download_file line 163: the offset of the single preallocating zero byte.
prealloc_offset_plus_one(size) == size

prealloc_offset(size) == size - 1

\* for i in range(chunk_count) (lines 109, 167): i is the last iteration.
launch_loop_ends_early(i, count) == i + 2 >= count

launch_loop_ends(i, count) == i + 1 = count

\* thread.join() returns once the thread has ended, however it ended.
join_without_waiting(state) == TRUE

thread_finished(state) == state \in {"ok", "failed"}

Msg(kind, val) == [kind |-> kind, val |-> val]

\* The request of one chunk exchange (lines 76-79, 128-131): the header, the
\* name, send_int(start_byte), send_int(end_byte), in this order.
chunk_request_messages_end_first(operation, start, end) ==
    << Msg(IF operation = "upload" THEN "UPLOAD_CHUNK" ELSE "DOWNLOAD_CHUNK", 0),
       Msg("name", 0), Msg("int", end), Msg("int", start) >>

chunk_request_messages(operation, start, end) ==
    << Msg(IF operation = "upload" THEN "UPLOAD_CHUNK" ELSE "DOWNLOAD_CHUNK", 0),
       Msg("name", 0), Msg("int", start), Msg("int", end) >>

\* chunk_uploaded.send(self, chunk = chunk_number) (lines 86, 139): the chunk
\* numbers of the progress signals one successful worker sends.
progress_signal_first_chunk(chunk_number) == << 0 >>

progress_signal(chunk_number) == << chunk_number >>

\* ---------------------------------------------------------------- state
VARIABLES
    op,           \* "upload" or "download": the operation called
    source,       \* content of the file to transfer
    chunk_count,  \* argument chunk_count
    server_has,   \* what the server answers about the file's existence
    dest_dir,     \* whether the destination directory exists (download)
    pc,           \* position of the calling thread inside the operation
    error,        \* exception caught by the operation's except clause
    ctrl,         \* control connection: "none", "refused", "open", "closed"
    ctrl_sent,    \* messages sent on the control connection, in order
    ctrl_recv,    \* bytes the one sock.recv of the negotiation returned
                  \*   (-1 before it is called)
    file_size,    \* local file_size (-1 before it is read)
    chunk_size,   \* local chunk_size (-1 before it is computed)
    idx,          \* loop variable of the launch loop, then of the join loop
    dest_present, \* whether the destination file exists
    dest,         \* content of the destination file
    seeks,        \* offsets passed to file.seek on the destination file
    wpc,          \* position of each chunk worker thread
    werr,         \* exception caught by each worker's except clause
    args,         \* <<start_byte, end_byte>> handed to each worker
    conn,         \* each worker's connection: "none", "refused", "open",
                  \*   "peer_closed", "closed"
    wsent,        \* messages sent on each worker's connection, in order
    data,         \* bytes received (download) or read (upload) by each worker
    wpos,         \* position of each worker's own file object (-1: not open)
    writes,       \* <<worker, offset>> for every byte written into dest
    events        \* chunk numbers carried by the emitted progress signals

vars == << op, source, chunk_count, server_has, dest_dir, pc, error, ctrl,
           ctrl_sent, ctrl_recv, file_size, chunk_size, idx, dest_present, dest, seeks,
           wpc, werr, args, conn, wsent, data, wpos, writes, events >>

inputs == << op, source, chunk_count, server_has, dest_dir >>
mainVars == << pc, error, ctrl, ctrl_sent, ctrl_recv, file_size, chunk_size, idx >>
fileVars == << dest_present, dest, seeks, writes >>
workerVars == << wpc, werr, args, conn, wsent, data, wpos, events >>

Init ==
    /\ op \in {"upload", "download"}
    /\ source \in SourceFiles
    /\ chunk_count \in 1 .. MaxChunks
    /\ server_has \in BOOLEAN
    /\ dest_dir \in (IF op = "download" THEN BOOLEAN ELSE {TRUE})
    /\ dest_present \in (IF op = "download" /\ dest_dir THEN BOOLEAN ELSE {FALSE})
    /\ dest = IF dest_present THEN OldFile ELSE << >>
    /\ pc = (IF op = "download" THEN "check_dir" ELSE "connect")
    /\ error = "none"
    /\ ctrl = "none"
    /\ ctrl_sent = << >>
    /\ ctrl_recv = -1
    /\ file_size = -1
    /\ chunk_size = -1
    /\ idx = 0
    /\ seeks = {}
    /\ wpc = [i \in Workers |-> "idle"]
    /\ werr = [i \in Workers |-> "none"]
    /\ args = [i \in Workers |-> << 0, 0 >>]
    /\ conn = [i \in Workers |-> "none"]
    /\ wsent = [i \in Workers |-> << >>]
    /\ data = [i \in Workers |-> << >>]
    /\ wpos = [i \in Workers |-> -1]
    /\ writes = {}
    /\ events = << >>

\* The except clause of upload_file / download_file: the exception is
\* printed, the with block closes the control connection, the call returns.
Abort(e) ==
    /\ pc' = "done"
    /\ error' = e
    /\ ctrl' = IF ctrl = "open" THEN "closed" ELSE ctrl

\* ------------------------------------------------ the calling thread

\* download_file lines 147-148.
download_check_dir ==
    /\ op = "download"
    /\ pc = "check_dir"
    /\ IF destination_missing(dest_dir)
       THEN Abort("FileNotFoundError(destination)")
       ELSE /\ pc' = "connect"
            /\ UNCHANGED << error, ctrl >>
    /\ UNCHANGED << inputs, ctrl_sent, ctrl_recv, file_size, chunk_size, idx,
                    fileVars, workerVars >>

\* sock.connect(self.address) on the control connection (lines 95, 151):
\* the server accepts or the connection is refused.
control_connect ==
    /\ pc = "connect"
    /\ \E accepted \in BOOLEAN :
          IF accepted
          THEN /\ ctrl' = "open"
               /\ pc' = "request"
               /\ error' = error
          ELSE /\ ctrl' = "refused"
               /\ pc' = "done"
               /\ error' = "OSError"
    /\ UNCHANGED << inputs, ctrl_sent, ctrl_recv, file_size, chunk_size, idx,
                    fileVars, workerVars >>

\* send_command(REQUEST_UPLOAD | REQUEST_DOWNLOAD, len(name)); sendall(name)
\* (lines 98-99, 152-153).
send_request ==
    /\ pc = "request"
    /\ ctrl_sent' = ctrl_sent \o
          << Msg(IF op = "upload" THEN "REQUEST_UPLOAD" ELSE "REQUEST_DOWNLOAD", 0),
             Msg("name", 0) >>
    /\ pc' = "response"
    /\ UNCHANGED << inputs, error, ctrl, ctrl_recv, file_size, chunk_size, idx,
                    fileVars, workerVars >>

\* upload_file lines 100-102: recv_bool is one sock.recv(1), which returns
\* n = 0 bytes when the server has closed, and then struct.unpack raises.
upload_recv_response ==
    /\ op = "upload"
    /\ pc = "response"
    /\ \E n \in 0 .. 1 :
          /\ ctrl_recv' = n
          /\ IF n < 1 THEN Abort("struct.error")
             ELSE IF upload_aborts(server_has) THEN Abort("FileExistsError")
             ELSE /\ pc' = after_response(op)
                  /\ UNCHANGED << error, ctrl >>
    /\ UNCHANGED << inputs, ctrl_sent, file_size, chunk_size, idx,
                    fileVars, workerVars >>

\* upload_file lines 104-105: os.path.getsize, send_int(file_size).
upload_send_size ==
    /\ op = "upload"
    /\ pc = "size"
    /\ file_size' = Len(source)
    /\ IF send_int_raises(Len(source))
       THEN /\ Abort("struct.error")
            /\ UNCHANGED ctrl_sent
       ELSE /\ ctrl_sent' = Append(ctrl_sent, Msg("int", Len(source)))
            /\ pc' = "plan"
            /\ UNCHANGED << error, ctrl >>
    /\ UNCHANGED << inputs, ctrl_recv, chunk_size, idx, fileVars, workerVars >>

\* download_file lines 154-157: one sock.recv(5) delivering n bytes, of which
\* struct.unpack('!?I', ...) needs all 5.
download_recv_response ==
    /\ op = "download"
    /\ pc = "response"
    /\ \E n \in 0 .. 5 :
          /\ ctrl_recv' = n
          /\ IF n < 5
             THEN /\ Abort("struct.error")
                  /\ UNCHANGED file_size
             ELSE /\ file_size' = (IF server_has THEN Len(source) ELSE 0)
                  /\ IF download_aborts(server_has) THEN Abort("FileNotFoundError(server)")
                     ELSE /\ pc' = after_response(op)
                          /\ UNCHANGED << error, ctrl >>
    /\ UNCHANGED << inputs, ctrl_sent, chunk_size, idx, fileVars, workerVars >>

\* chunk_size = file_size // chunk_count (lines 107, 159).
plan ==
    /\ pc = "plan"
    /\ chunk_size' = ChunkSize(file_size, chunk_count)
    /\ pc' = (IF op = "download" THEN "prealloc" ELSE "dispatch")
    /\ idx' = 0
    /\ UNCHANGED << inputs, error, ctrl, ctrl_sent, ctrl_recv, file_size,
                    fileVars, workerVars >>

\* download_file lines 161-164: open(path, 'wb') creates or truncates the
\* destination, then seek(file_size - 1) and write(b'\0').  seek raises
\* OSError on a negative offset; the with block still closes the (empty) file.
download_prealloc ==
    /\ op = "download"
    /\ pc = "prealloc"
    /\ dest_present' = TRUE
    /\ seeks' = seeks \cup { prealloc_offset(file_size) }
    /\ IF prealloc_offset(file_size) < 0
       THEN /\ dest' = << >>
            /\ Abort("OSError")
       ELSE /\ dest' = WriteAt(<< >>, prealloc_offset(file_size), << 0 >>)
            /\ pc' = "dispatch"
            /\ UNCHANGED << error, ctrl >>
    /\ UNCHANGED << inputs, ctrl_sent, ctrl_recv, file_size, chunk_size, idx,
                    writes, workerVars >>

\* One iteration of the launch loop (lines 109-115, 167-173): compute the
\* range of chunk idx and start its thread.
launch ==
    /\ pc = "dispatch"
    /\ idx < chunk_count
    /\ args' = [args EXCEPT ![idx] =
                  << start_byte(idx, chunk_size),
                     end_byte(idx, chunk_count, chunk_size, file_size) >>]
    /\ wpc' = [wpc EXCEPT ![idx] = "connect"]
    /\ idx' = (IF launch_loop_ends(idx, chunk_count) THEN 0 ELSE idx + 1)
    /\ pc' = (IF launch_loop_ends(idx, chunk_count) THEN "join" ELSE "dispatch")
    /\ UNCHANGED << inputs, error, ctrl, ctrl_sent, ctrl_recv, file_size,
                    chunk_size, fileVars, werr, conn, wsent, data, wpos, events >>

\* One iteration of the join loop (lines 117-118, 175-176); after the last
\* join the with block closes the control connection and the call returns.
join ==
    /\ pc = "join"
    /\ thread_finished(wpc[idx])
    /\ idx' = idx + 1
    /\ IF idx + 1 = chunk_count
       THEN /\ pc' = "done"
            /\ ctrl' = "closed"
       ELSE UNCHANGED << pc, ctrl >>
    /\ UNCHANGED << inputs, error, ctrl_sent, ctrl_recv, file_size, chunk_size,
                    fileVars, workerVars >>

Orchestrator ==
    \/ download_check_dir
    \/ control_connect
    \/ send_request
    \/ upload_recv_response
    \/ upload_send_size
    \/ download_recv_response
    \/ plan
    \/ download_prealloc
    \/ launch
    \/ join

\* ------------------------------------------------ the chunk workers

\* The except clause of upload_chunk / download_chunk (lines 89-90, 142-143):
\* the exception is printed and the thread ends; the with blocks have closed
\* the worker's file and socket.
Fail(i, e) ==
    /\ wpc' = [wpc EXCEPT ![i] = "failed"]
    /\ werr' = [werr EXCEPT ![i] = e]
    /\ conn' = [conn EXCEPT ![i] = "closed"]
    /\ wpos' = [wpos EXCEPT ![i] = -1]

ChunkLength(i) == args[i][2] - args[i][1] + 1

\* sock.connect(self.address) on a fresh socket (lines 72-73, 125-126).
chunk_connect(i) ==
    /\ wpc[i] = "connect"
    /\ \E accepted \in BOOLEAN :
          IF accepted
          THEN /\ conn' = [conn EXCEPT ![i] = "open"]
               /\ wpc' = [wpc EXCEPT ![i] = "send"]
               /\ UNCHANGED werr
          ELSE /\ conn' = [conn EXCEPT ![i] = "refused"]
               /\ wpc' = [wpc EXCEPT ![i] = "failed"]
               /\ werr' = [werr EXCEPT ![i] = "OSError"]
    /\ UNCHANGED << inputs, mainVars, fileVars, args, wsent, data, wpos, events >>

\* Lines 75-79 and 128-131: header, name, send_int(start_byte),
\* send_int(end_byte); struct.pack raises before anything of that integer
\* is sent.
chunk_request(i) ==
    LET msgs == chunk_request_messages(op, args[i][1], args[i][2])
    IN
    /\ wpc[i] = "send"
    /\ IF send_int_raises(msgs[3].val)
       THEN /\ wsent' = [wsent EXCEPT ![i] = @ \o SubSeq(msgs, 1, 2)]
            /\ Fail(i, "struct.error")
       ELSE IF send_int_raises(msgs[4].val)
       THEN /\ wsent' = [wsent EXCEPT ![i] = @ \o SubSeq(msgs, 1, 3)]
            /\ Fail(i, "struct.error")
       ELSE /\ wsent' = [wsent EXCEPT ![i] = @ \o msgs]
            /\ wpc' = [wpc EXCEPT ![i] = "file"]
            /\ UNCHANGED << werr, conn, wpos >>
    /\ UNCHANGED << inputs, mainVars, fileVars, args, data, events >>

\* upload_chunk lines 81-84: open the source read-only, seek, read, sendall.
upload_chunk_data(i) ==
    /\ op = "upload"
    /\ wpc[i] = "file"
    /\ data' = [data EXCEPT ![i] = ReadAt(source, args[i][1], ChunkLength(i))]
    /\ wsent' = [wsent EXCEPT ![i] = Append(@, Msg("data", Len(data'[i])))]
    /\ wpc' = [wpc EXCEPT ![i] = "emit"]
    /\ UNCHANGED << inputs, mainVars, fileVars, werr, args, conn, wpos, events >>

\* download_chunk lines 134-135: open(path, 'r+b') gives the worker a file
\* object of its own, positioned by seek(start_byte); recv_all then starts
\* with an empty buffer and returns at once when nothing is to be received.
download_chunk_open(i) ==
    /\ op = "download"
    /\ wpc[i] = "file"
    /\ IF ~dest_present
       THEN /\ Fail(i, "FileNotFoundError")
            /\ UNCHANGED seeks
       ELSE /\ seeks' = seeks \cup { args[i][1] }
            /\ IF args[i][1] < 0
               THEN Fail(i, "OSError")
               ELSE /\ wpos' = [wpos EXCEPT ![i] = args[i][1]]
                    /\ wpc' = [wpc EXCEPT ![i] =
                                 IF ChunkLength(i) <= 0 THEN "write" ELSE "recv"]
                    /\ UNCHANGED << werr, conn >>
    /\ UNCHANGED << inputs, mainVars, dest_present, dest, writes, args, wsent,
                    data, events >>

\* The server closes a worker's connection while the worker is receiving.
server_close(i) ==
    /\ wpc[i] = "recv"
    /\ conn[i] = "open"
    /\ conn' = [conn EXCEPT ![i] = "peer_closed"]
    /\ UNCHANGED << inputs, mainVars, fileVars, wpc, werr, args, wsent, data,
                    wpos, events >>

\* One iteration of the loop of recv_all (lines 39-43) inside download_chunk
\* line 136: sock.recv returns between 1 and the missing number of bytes of
\* the requested range as the server reads them from its file, or nothing
\* once the server has closed.
download_chunk_recv(i) ==
    LET have    == Len(data[i])
        missing == ChunkLength(i) - have
        from    == args[i][1] + have
    IN
    /\ op = "download"
    /\ wpc[i] = "recv"
    /\ \E packet \in (IF conn[i] = "peer_closed" THEN { << >> }
                      ELSE { ReadAt(source, from, k) : k \in 1 .. missing }) :
          LET outcome == recv_all_step(have, ChunkLength(i), packet) IN
          IF outcome = "raise"
          THEN /\ Fail(i, "ConnectionError")
               /\ UNCHANGED data
          ELSE /\ data' = [data EXCEPT ![i] = @ \o packet]
               /\ wpc' = [wpc EXCEPT ![i] =
                            IF outcome = "loop" THEN "recv" ELSE "write"]
               /\ UNCHANGED << werr, conn, wpos >>
    /\ UNCHANGED << inputs, mainVars, fileVars, args, wsent, events >>

\* download_chunk line 137 and the end of the with block: the received bytes
\* are written at the position of the worker's own file object.
download_chunk_write(i) ==
    /\ op = "download"
    /\ wpc[i] = "write"
    /\ dest' = WriteAt(dest, wpos[i], data[i])
    /\ writes' = writes \cup { << i, wpos[i] + k >> : k \in 0 .. (Len(data[i]) - 1) }
    /\ wpos' = [wpos EXCEPT ![i] = -1]
    /\ wpc' = [wpc EXCEPT ![i] = "emit"]
    /\ UNCHANGED << inputs, mainVars, dest_present, seeks, werr, args, conn,
                    wsent, data, events >>

\* Lines 86-87 and 139-140: the progress signal, then the socket is closed.
chunk_emit(i) ==
    /\ wpc[i] = "emit"
    /\ events' = events \o progress_signal(i)
    /\ wpc' = [wpc EXCEPT ![i] = "ok"]
    /\ conn' = [conn EXCEPT ![i] = "closed"]
    /\ UNCHANGED << inputs, mainVars, fileVars, werr, args, wsent, data, wpos >>

Worker(i) ==
    \/ chunk_connect(i)
    \/ chunk_request(i)
    \/ upload_chunk_data(i)
    \/ download_chunk_open(i)
    \/ download_chunk_recv(i)
    \/ download_chunk_write(i)
    \/ chunk_emit(i)

Next ==
    \/ Orchestrator
    \/ \E i \in Workers : Worker(i)
    \/ \E i \in Workers : server_close(i)

Spec == Init /\ [][Next]_vars

\* Fair scheduling of the calling thread and of every worker thread; a worker
\* blocked in sock.recv is eventually handed bytes or the end of the stream.
FairSpec ==
    /\ Spec
    /\ WF_vars(Orchestrator)
    /\ \A i \in Workers : WF_vars(Worker(i))

TypeOK ==
    /\ op \in {"upload", "download"}
    /\ pc \in {"check_dir", "connect", "request", "response", "size", "plan",
               "prealloc", "dispatch", "join", "done"}
    /\ \A i \in Workers :
          wpc[i] \in {"idle", "connect", "send", "file", "recv", "write",
                      "emit", "ok", "failed"}

\* ------------------------------------------------------------ properties

Launched == { i \in Workers : wpc[i] # "idle" }

\* The byte offsets of worker i's range [start_byte, end_byte].
RangeOf(i) == args[i][1] .. args[i][2]

\* The launch loop has run to its end.
AllLaunched == pc = "join" \/ (pc = "done" /\ error = "none")

\* The server's answer to the negotiation request arrived in full.
Answered == ctrl_recv = (IF op = "upload" THEN 1 ELSE 5)

\* C1: the ranges handed to the chunk workers are ordered by start offset,
\* pairwise disjoint, and once all are handed out their union is exactly
\* [0, file_size - 1] (empty for file_size = 0).
C1_RangesPartitionFile ==
    /\ \A i, j \in Launched :
          i < j => /\ args[i][1] <= args[j][1]
                   /\ RangeOf(i) \cap RangeOf(j) = {}
                   /\ \A a \in RangeOf(i) : \A b \in RangeOf(j) : a < b
    /\ AllLaunched =>
          /\ Launched = 0 .. (chunk_count - 1)
          /\ UNION { RangeOf(i) : i \in Launched } = 0 .. (file_size - 1)

C1_Witness ==
    /\ AllLaunched
    /\ chunk_count >= 3
    /\ file_size > chunk_count
    /\ file_size % chunk_count # 0

\* C2: an upload whose REQUEST_UPLOAD the server answers with exists = true
\* ends with FileExistsError; the file size is never sent, no worker is
\* launched and no chunk connection is opened.
C2_UploadCollisionAborts ==
    (op = "upload" /\ server_has) =>
        /\ \A k \in 1 .. Len(ctrl_sent) : ctrl_sent[k].kind # "int"
        /\ Launched = {}
        /\ \A i \in Workers : conn[i] = "none"
        /\ pc \notin {"size", "plan", "dispatch", "join"}
        /\ Answered => (pc = "done" /\ error = "FileExistsError")

C2_Witness ==
    op = "upload" /\ server_has /\ Answered /\ pc = "done"

\* C3: a download into a destination directory that does not exist ends with
\* FileNotFoundError and never opens a control or chunk connection.
C3_MissingDirNoConnection ==
    (op = "download" /\ ~dest_dir) =>
        /\ ctrl = "none"
        /\ ctrl_sent = << >>
        /\ \A i \in Workers : conn[i] = "none"
        /\ pc \in {"check_dir", "done"}
        /\ pc = "done" => error = "FileNotFoundError(destination)"

C3_Witness ==
    op = "download" /\ ~dest_dir /\ pc = "done"

\* C4: in a download, from the launch of the first worker on, the destination
\* file exists and has exactly file_size bytes, so every worker write is on a
\* file of that length.
C4_PreallocatedBeforeWrites ==
    (op = "download" /\ Launched # {}) =>
        /\ dest_present
        /\ Len(dest) = file_size

C4_Witness ==
    /\ op = "download"
    /\ \E i \in Workers : wpc[i] = "write" /\ Len(data[i]) >= 2
    /\ \E j \in Workers : << j, 0 >> \in writes

\* C5: the operation returns only when every worker it launched has ended,
\* and an operation that got to launching launched and awaited all
\* chunk_count workers, whatever the outcome of each.
C5_ReturnsAfterAllWorkers ==
    pc = "done" =>
        /\ \A i \in Launched : wpc[i] \in {"ok", "failed"}
        /\ error = "none" => Launched = 0 .. (chunk_count - 1)

C5_Witness ==
    /\ pc = "done"
    /\ \E i, j \in Launched : i < j /\ wpc[i] = "failed" /\ wpc[j] = "ok"
    /\ \E i, j \in Launched : i < j /\ wpc[i] = "ok" /\ wpc[j] = "failed"

\* C6: when a download has returned, the range of every successful worker
\* holds the server's bytes and the range of every failed worker still holds
\* the zero bytes of the preallocation.
C6_FailedRangeStaysZero ==
    (op = "download" /\ pc = "done" /\ error = "none") =>
        \A i \in Launched :
            /\ RangeOf(i) \subseteq 0 .. (Len(dest) - 1)
            /\ wpc[i] = "ok" => \A o \in RangeOf(i) : dest[o + 1] = source[o + 1]
            /\ wpc[i] = "failed" => \A o \in RangeOf(i) : dest[o + 1] = 0

C6_Witness ==
    /\ op = "download" /\ pc = "done" /\ chunk_count = 4
    /\ \E i \in Launched :
          /\ werr[i] = "ConnectionError"
          /\ data[i] # << >>
          /\ \A j \in Launched \ {i} : wpc[j] = "ok" /\ data[j] # << >>

\* The phases of the state machine of one file operation.
Phase(p) ==
    CASE p \in {"check_dir", "connect", "request", "response", "size"} -> "NEGOTIATE"
      [] p \in {"plan", "prealloc"} -> "PLAN"
      [] p = "dispatch" -> "DISPATCH_CHUNKS"
      [] p = "join" -> "AWAIT_ALL"
      [] OTHER -> "DONE"

PhaseEdges ==
    { << "NEGOTIATE", "NEGOTIATE" >>, << "NEGOTIATE", "DONE" >>,
      << "NEGOTIATE", "PLAN" >>, << "PLAN", "PLAN" >>, << "PLAN", "DONE" >>,
      << "PLAN", "DISPATCH_CHUNKS" >>,
      << "DISPATCH_CHUNKS", "DISPATCH_CHUNKS" >>,
      << "DISPATCH_CHUNKS", "AWAIT_ALL" >>, << "AWAIT_ALL", "AWAIT_ALL" >>,
      << "AWAIT_ALL", "DONE" >>, << "DONE", "DONE" >> }

PhaseStep == << Phase(pc), Phase(pc') >> \in PhaseEdges

C8_NoWriteWriteRace ==
    /\ \A w1, w2 \in writes : w1[2] = w2[2] => w1[1] = w2[1]
    /\ \A w \in writes : w[2] \in RangeOf(w[1])
    /\ \A i \in Workers : wpc[i] \in {"recv", "write"} => wpos[i] = args[i][1]

C8_Witness ==
    /\ \E w1, w2 \in writes : w1[1] # w2[1] /\ w1[2] + 1 = w2[2]
    /\ \E i, j \in Workers : i # j /\ wpc[i] = "write" /\ wpc[j] = "write"

\* C9 (as claimed): a worker whose range has start > end, and whose connection
\* was accepted, does not end in failure and reads and writes nothing.
C9_EmptyChunkCompletes ==
    \A i \in Launched :
        (args[i][1] > args[i][2] /\ conn[i] # "refused") =>
            /\ wpc[i] # "failed"
            /\ data[i] = << >>
            /\ \A w \in writes : w[1] # i

\* C10 (as claimed): a download of a remote file of size 0 never uses a
\* negative offset and returns without error, leaving a zero-length
\* destination file.
C10_EmptyDownloadSpecialCased ==
    (op = "download" /\ server_has /\ Answered /\ file_size = 0) =>
        /\ \A o \in seeks : o >= 0
        /\ \A i \in Launched : args[i][1] >= 0 /\ args[i][2] >= 0
        /\ pc = "done" => (error = "none" /\ dest_present /\ dest = << >>)

\* The number of progress signals emitted so far that carry chunk number i.
EventCount(i) == Cardinality({ k \in 1 .. Len(events) : events[k] = i })

\* C11: the progress signal of chunk i is emitted at most once: exactly once
\* when worker i has completed successfully, never when it has failed or is
\* still at work.
C11_ProgressSignalOncePerChunk ==
    /\ \A k \in 1 .. Len(events) : events[k] \in Launched
    /\ \A i \in Workers :
          /\ EventCount(i) <= 1
          /\ wpc[i] = "ok" => EventCount(i) = 1
          /\ wpc[i] # "ok" => EventCount(i) = 0

\* Two chunks completed, the later one reporting first, next to a failed one.
C11_Witness ==
    /\ pc = "done"
    /\ \E i, j \in Launched : i < j /\ events = << j, i >>
    /\ \E f \in Launched : wpc[f] = "failed"

\* recv_all has returned its buffer to download_chunk.
RecvAllReturned(i) == op = "download" /\ wpc[i] \in {"write", "emit", "ok"}

RecvAllLengths ==
    \A i \in Workers :
        /\ RecvAllReturned(i) => Len(data[i]) = ChunkLength(i)
        /\ werr[i] = "ConnectionError" => Len(data[i]) < ChunkLength(i)

RecvAllOnClosedStream ==
    \A i \in Workers :
        (wpc[i] = "recv" /\ conn[i] = "peer_closed" /\ wpc'[i] # "recv") =>
            (wpc'[i] = "failed" /\ werr'[i] = "ConnectionError")

\* C12: recv_all returns only a buffer of exactly the requested length; on a
\* stream that closes after delivering fewer bytes, in whatever packets, it
\* raises ConnectionError instead of returning.
C12_RecvAllExactOrRaises ==
    /\ []RecvAllLengths
    /\ [][RecvAllOnClosedStream]_vars

C12_Witness ==
    \E i \in Workers :
        /\ werr[i] = "ConnectionError"
        /\ Len(data[i]) >= 2
        /\ ChunkLength(i) - Len(data[i]) >= 2

\* C13 (as claimed): when the first packet of the negotiation response holds
\* at least one byte (the stream is not closed) but not the whole response,
\* the client still collects the response and decodes the complete value: it
\* does not end in a decoding error, and a download learns the file's size.
C13_ControlReadsExactLength ==
    ctrl_recv >= 1 =>
        /\ error # "struct.error"
        /\ (op = "download" /\ server_has) => file_size = Len(source)

\* C14: a download whose REQUEST_DOWNLOAD the server answers with
\* exists = false ends with FileNotFoundError during the negotiation; no
\* worker is launched and no chunk connection is opened.
C14_RemoteMissingAborts ==
    (op = "download" /\ ~server_has) =>
        /\ Launched = {}
        /\ \A i \in Workers : conn[i] = "none" /\ wsent[i] = << >>
        /\ pc \notin {"plan", "prealloc", "dispatch", "join"}
        /\ Answered => (pc = "done" /\ error = "FileNotFoundError(server)")

C14_Witness ==
    op = "download" /\ ~server_has /\ Answered /\ pc = "done" /\ ctrl = "closed"

\* The messages of a completed negotiation, as sent on the control connection.
NegotiationSent ==
    IF op = "upload"
    THEN << Msg("REQUEST_UPLOAD", 0), Msg("name", 0), Msg("int", Len(source)) >>
    ELSE << Msg("REQUEST_DOWNLOAD", 0), Msg("name", 0) >>

\* C15: whenever a worker has been launched or a chunk connection exists, the
\* negotiation on the control connection is complete: the request was sent,
\* the response was received, and an upload has sent the file size.
C15_NegotiationBeforeWorkers ==
    (Launched # {} \/ \E i \in Workers : conn[i] # "none") =>
        /\ ctrl_sent = NegotiationSent
        /\ Answered
        /\ file_size = Len(source)

C15_Witness ==
    /\ op = "upload"
    /\ pc = "dispatch"
    /\ \E i \in Launched : conn[i] = "open"

\* ------------------------------------------------ the chunk plan alone

\* The calling thread right after a successful negotiation, for files of up
\* to PlanMaxSize bytes; the workers it launches are not run.
PlanInit ==
    /\ op \in {"upload", "download"}
    /\ source \in { SourceOfSize(n) : n \in 0 .. PlanMaxSize }
    /\ chunk_count \in 1 .. MaxChunks
    /\ server_has = (op = "download")
    /\ dest_dir = TRUE
    /\ dest_present = FALSE
    /\ dest = << >>
    /\ pc = "plan"
    /\ error = "none"
    /\ ctrl = "open"
    /\ ctrl_sent = NegotiationSent
    /\ ctrl_recv = (IF op = "upload" THEN 1 ELSE 5)
    /\ file_size = Len(source)
    /\ chunk_size = -1
    /\ idx = 0
    /\ seeks = {}
    /\ wpc = [i \in Workers |-> "idle"]
    /\ werr = [i \in Workers |-> "none"]
    /\ args = [i \in Workers |-> << 0, 0 >>]
    /\ conn = [i \in Workers |-> "none"]
    /\ wsent = [i \in Workers |-> << >>]
    /\ data = [i \in Workers |-> << >>]
    /\ wpos = [i \in Workers |-> -1]
    /\ writes = {}
    /\ events = << >>

PlanNext ==
    \/ plan
    \/ download_prealloc
    \/ launch

PlanSpec == PlanInit /\ [][PlanNext]_vars

\* C16: with base = file_size div chunk_count, chunk i < chunk_count - 1 is
\* handed [i*base, (i+1)*base - 1] and the final chunk
\* [(chunk_count-1)*base, file_size - 1]; there are exactly chunk_count
\* ranges and the last one ends at file_size - 1.
C16_PlanFormula ==
    LET base == file_size \div chunk_count IN
    /\ \A i \in Launched :
          args[i] = IF i < chunk_count - 1
                    THEN << i * base, (i + 1) * base - 1 >>
                    ELSE << (chunk_count - 1) * base, file_size - 1 >>
    /\ pc = "join" =>
          /\ Launched = 0 .. (chunk_count - 1)
          /\ args[chunk_count - 1][2] = file_size - 1

\* The example of the specification: 10 bytes in 4 chunks.
C16_Witness ==
    /\ pc = "join"
    /\ file_size = 10
    /\ chunk_count = 4
    /\ args[0] = << 0, 1 >>
    /\ args[1] = << 2, 3 >>
    /\ args[2] = << 4, 5 >>
    /\ args[3] = << 6, 9 >>

IsPrefix(s, t) == Len(s) <= Len(t) /\ s = SubSeq(t, 1, Len(s))

\* The messages of a complete chunk exchange of worker i, as the protocol
\* orders them; the data of a download travels towards the client.
ExchangeOrder(i) ==
    << Msg(IF op = "upload" THEN "UPLOAD_CHUNK" ELSE "DOWNLOAD_CHUNK", 0),
       Msg("name", 0), Msg("int", args[i][1]), Msg("int", args[i][2]) >>
    \o (IF op = "upload" THEN << Msg("data", args[i][2] - args[i][1] + 1) >> ELSE << >>)

\* Worker i has read from the source (upload) or opened, received for or
\* written the destination (download).
InDataPhase(i) ==
    \/ wpc[i] \in {"recv", "write", "emit", "ok"}
    \/ data[i] # << >>
    \/ \E w \in writes : w[1] = i

\* C17: a worker sends header, name, start offset, end offset in this order
\* and only then enters the data phase, which moves exactly end-start+1
\* bytes: those of the source file from offset start (upload), written into
\* the destination file from offset start (download).
C17_ChunkExchangeOrder ==
    \A i \in Workers :
        /\ IsPrefix(wsent[i], ExchangeOrder(i))
        /\ InDataPhase(i) => Len(wsent[i]) >= 4
        /\ wpc[i] \in {"emit", "ok"} =>
              /\ Len(data[i]) = args[i][2] - args[i][1] + 1
              /\ \A k \in 1 .. Len(data[i]) : data[i][k] = source[args[i][1] + k]
              /\ op = "upload" => wsent[i] = ExchangeOrder(i)
              /\ op = "download" =>
                    /\ { w[2] : w \in { v \in writes : v[1] = i } } = RangeOf(i)
                    /\ \A k \in 1 .. Len(data[i]) : dest[args[i][1] + k] = data[i][k]

C17_Witness ==
    /\ op = "upload"
    /\ \E i \in Workers :
          /\ wpc[i] = "ok"
          /\ args[i][1] > 0
          /\ args[i][2] > args[i][1]
          /\ Len(wsent[i]) = 5

\* The number of chunk exchanges begun on worker i's connection.
ExchangesOn(i) ==
    Cardinality({ k \in 1 .. Len(wsent[i]) :
                    wsent[i][k].kind \in {"UPLOAD_CHUNK", "DOWNLOAD_CHUNK"} })

OneWorkerPerChunk ==
    /\ Launched \subseteq 0 .. (chunk_count - 1)
    /\ AllLaunched => Launched = 0 .. (chunk_count - 1)
    /\ \A i \in Workers :
          /\ conn[i] # "none" => i \in Launched
          /\ wsent[i] # << >> => conn[i] \in {"open", "peer_closed", "closed"}
          /\ ExchangesOn(i) <= 1

\* A thread is started once and a worker's socket, once connected, refused or
\* closed, is never replaced by another connection.
OneConnectionPerWorker ==
    \A i \in Workers :
        /\ wpc[i] \notin {"idle", "connect"} => wpc'[i] # "connect"
        /\ conn[i] = "none" => conn'[i] \in {"none", "open", "refused"}
        /\ conn[i] \in {"open", "peer_closed"} => conn'[i] \in {conn[i], "peer_closed", "closed"}
        /\ conn[i] \in {"refused", "closed"} => conn'[i] = conn[i]

C19_DownloadReproducesFile ==
    ( /\ op = "download"
      /\ pc = "done"
      /\ error = "none"
      /\ file_size >= 1
      /\ \A i \in Launched : RangeOf(i) # {} => wpc[i] = "ok" ) =>
        /\ dest_present
        /\ Len(dest) = Len(source)
        /\ dest = source

C19_Witness ==
    /\ op = "download"
    /\ pc = "done"
    /\ chunk_count >= 3
    /\ file_size > chunk_count
    /\ \A i \in 0 .. (chunk_count - 1) : wpc[i] = "ok"
    /\ dest = source

\* The download fails a precondition: the destination directory is missing,
\* or the server has answered that it does not have the file.
PreconditionFails ==
    op = "download" /\ (~dest_dir \/ (~server_has /\ Answered))

DestinationUntouched ==
    PreconditionFails =>
        /\ seeks = {}
        /\ writes = {}
        /\ dest_present => dest = OldFile

DestinationKept ==
    PreconditionFails' => UNCHANGED << dest_present, dest >>

\* C20: a download that fails a precondition never opens, creates, truncates
\* or writes the destination file: a file that was there keeps its content
\* and a file that was not there is not created.
C20_FailedPreconditionLeavesFiles ==
    /\ []DestinationUntouched
    /\ [][DestinationKept]_vars

C20_Witness ==
    /\ op = "download"
    /\ ~server_has
    /\ Answered
    /\ error = "FileNotFoundError(server)"
    /\ dest_present
    /\ dest = OldFile

====
